---- MODULE Spec2Model ----
(***************************************************************************)
(* Model of the resumable crawl controller of french-word-list             *)
(* (src/scraper.py): the durable files it reads and writes, the in-memory  *)
(* state of one run of main(), and the environment around it (the          *)
(* dictionary site, the operator editing the input list, external          *)
(* termination of the process); and of the viewer (src/viewer.py): the     *)
(* import of the two output files into words.db and the definition         *)
(* endpoint.                                                               *)
(*                                                                         *)
(* Strings of page text are abstracted by the set of lexical cues they     *)
(* contain, so that `cue in text` of the source is `cue \in text` here.    *)
(* A CSV file is the sequence of its rows, header row included; a file     *)
(* that does not exist (or was truncated to nothing) is the empty          *)
(* sequence.                                                               *)
(***************************************************************************)
EXTENDS Integers, Sequences, FiniteSets, TLC

(* ------------------------------ bounds -------------------------------- *)

\* number of runs of main() that are started (also the range of the clock)
MaxRuns == 2

\* length of the free tail of an input list
MaxTail == 1

\* number of data rows of a CSV file the viewer imports
MaxCsvRows == 2

\* number of times init_db() runs (starts of the viewer)
MaxImports == 2

\* number of external lookups made for one word
MaxCalls == 2

(* ----------------------------- constants ------------------------------ *)

AUTO_PAUSE_LIMIT == 10

\* the length bound of _WORD_RE
WORD_RE_MAX == 80

\* Python's None, as the value of a string field
None == "None"

\* Python's None, as the result of scrape_word
NoResult == [none |-> TRUE]

\* Python's None, as the result of soup.find
NoText == {}

\* the lemmas of the input lists; "word" is also the header of column 0
Lemmas == {"chien", "word"}

(* ------------------------------ pages --------------------------------- *)

\* A page of the site: whether the GET answered 200, whether its text
\* contains 'verbe', the first text node containing 'groupe' and the first
\* text node containing 'masculin' or 'féminin' (None when there is none),
\* each text node given by the cues it contains.
PageNotFound == [ok |-> FALSE, verbe |-> FALSE, group_text |-> NoText, gender_text |-> NoText]

PagePlain == [ok |-> TRUE, verbe |-> FALSE, group_text |-> NoText, gender_text |-> NoText]

PageVerb == [ok |-> TRUE, verbe |-> TRUE, group_text |-> {"groupe", "3e", "1er"}, gender_text |-> {"masculin"}]

PageNoun == [ok |-> TRUE, verbe |-> TRUE, group_text |-> NoText, gender_text |-> {"féminin"}]

Pages == {PageNotFound, PagePlain, PageVerb, PageNoun}

\* the pages the site may serve for a lemma
PagesOf(w) == IF w = "chien" THEN {PageNotFound, PageNoun} ELSE {PagePlain, PageVerb}

Sites == {site \in [Lemmas -> Pages] : \A w \in Lemmas : site[w] \in PagesOf(w)}

\* `cue in gt` for a lower-cased text node gt
In(cue, gt) ==
    \/ cue \in gt
    \/ cue = "masc" /\ "masculin" \in gt

scrape_word(w, page) ==
    IF ~page.ok THEN NoResult
    ELSE IF page.verbe /\ page.group_text # NoText THEN
        [word |-> w, pos |-> "verb",
         gender_or_group |->
            IF In("troisième", page.group_text) \/ In("3e", page.group_text) THEN "3rd group"
            ELSE IF In("deuxième", page.group_text) \/ In("2e", page.group_text) THEN "2nd group"
            ELSE IF In("premier", page.group_text) \/ In("1er", page.group_text) THEN "1st group"
            ELSE "unknown group"]
    ELSE IF page.gender_text # NoText THEN
        [word |-> w, pos |-> "noun",
         gender_or_group |->
            IF In("masc", page.gender_text) THEN "masculine"
            ELSE IF In("fem", page.gender_text) \/ In("féminin", page.gender_text) THEN "feminine"
            ELSE None]
    ELSE [word |-> w, pos |-> "other", gender_or_group |-> None]

(* ------------------------------ files --------------------------------- *)

TrackerHeader == [word |-> "word", pos |-> "pos", status |-> "status",
                  gender_or_group |-> "gender_or_group", timestamp |-> 0]

GoodHeader == [word |-> "word", pos |-> "pos", gender_or_group |-> "gender_or_group"]

MissingHeader == [word |-> "word", pos |-> "pos"]

\* the rows of a CSV file below its header
DataRows(file) == IF file = <<>> THEN <<>> ELSE Tail(file)

\* tracker[e.word] = e on an insertion-ordered dict
SetEntry(t, e) ==
    IF \E j \in 1..Len(t) : t[j].word = e.word
    THEN [j \in 1..Len(t) |-> IF t[j].word = e.word THEN e ELSE t[j]]
    ELSE Append(t, e)

RECURSIVE DictOf(_)
\* {row['word']: row for row in rows}
DictOf(rows) ==
    IF rows = <<>> THEN <<>>
    ELSE SetEntry(DictOf(SubSeq(rows, 1, Len(rows) - 1)), rows[Len(rows)])

IsDoneRow(r) == r.status = "done"

\* a loader that keeps the done entries only
load_tracker_DoneOnly(file) == DictOf(SelectSeq(DataRows(file), IsDoneRow))

load_tracker(file) == DictOf(DataRows(file))

save_tracker(t) == <<TrackerHeader>> \o t

append_csv(file, header, row) ==
    IF file = <<>> THEN <<header, row>> ELSE Append(file, row)

\* a seen-set that forgets the persisted rows
LoadMissingSet_Empty(file) == {}

\* lines 110-116: the first column of every row of words_missing.csv, header
\* row included
LoadMissingSet(file) == {file[j].word : j \in 1..Len(file)}

(* --------------------------- input lists ------------------------------ *)

RECURSIVE Rep(_, _)
Rep(w, n) == IF n = 0 THEN <<>> ELSE <<w>> \o Rep(w, n - 1)

\* row.get('word', row.get('lemme', '')).strip() of a data row: "" is a row
\* whose 'word' column is blank
RowWords == Lemmas \cup {""}

Tails == UNION {[1..n -> RowWords] : n \in 0..MaxTail}

\* the input lists: a free tail, alone or behind one lemma repeated one time
\* less than the auto-pause limit
InputLists == Tails \cup {Rep("chien", AUTO_PAUSE_LIMIT - 1) \o t : t \in Tails}

\* input_words.csv does not exist
NoFile == [kind |-> "absent", rows |-> <<>>]

\* a file of fewer than two lines, none of which contains 'lemme'
ShortFile == [kind |-> "short", rows |-> <<>>]

\* a file with a header line naming 'lemme' and the given data rows
ListFile(l) == [kind |-> "list", rows |-> l]

InputFiles == {NoFile, ShortFile} \cup {ListFile(l) : l \in InputLists}

\* an input check that lets every file through
InputFails_Never(file) == FALSE

\* lines 102-104 and 127-133: main() returns before the loop
InputFails(file) == file.kind \in {"absent", "short"}

\* lines 134-138: the rows main() iterates over
ParseInput(file) == file.rows

(* ------------------------- viewer: words.db --------------------------- *)

\* a value Python takes for true: neither None nor the empty string
Truthy(x) == x \notin {None, ""}

\* the (word, pos, gender_or_group) tuples init_db inserts: the rows of
\* csv.DictReader (the header line gives the field names) with every field
\* non-empty
GoodImportRow(r) == Truthy(r.word) /\ Truthy(r.pos) /\ Truthy(r.gender_or_group)

MissingImportRow(r) == Truthy(r.word) /\ Truthy(r.pos)

\* a row of table words_good as INSERT ... (word, pos, gender_or_group)
\* creates it: definition and definition_source are NULL
GoodTuple(r) ==
    [word |-> r.word, pos |-> r.pos, gender_or_group |-> r.gender_or_group,
     definition |-> None, definition_source |-> None]

MissingTuple(r) == [word |-> r.word, pos |-> r.pos]

NotWord(w, r) == r.word # w

\* INSERT OR REPLACE on the UNIQUE column word: the old row is deleted
InsertOrReplace(table, row) ==
    LET Keep(r) == NotWord(row.word, r) IN Append(SelectSeq(table, Keep), row)

\* INSERT OR IGNORE on the UNIQUE column word
InsertOrIgnore(table, row) ==
    IF \E i \in 1..Len(table) : table[i].word = row.word THEN table
    ELSE Append(table, row)

RECURSIVE executemany(_, _)
\* conn.executemany("INSERT OR IGNORE ...", rows)
executemany(table, rows) ==
    IF rows = <<>> THEN table
    ELSE executemany(InsertOrIgnore(table, Head(rows)), Tail(rows))

\* the words_good import of init_db; a file that does not exist is skipped
ImportGood(table, file) ==
    LET rows == SelectSeq(DataRows(file), GoodImportRow)
    IN  executemany(table, [i \in 1..Len(rows) |-> GoodTuple(rows[i])])

\* the words_missing import of init_db
ImportMissing(table, file) ==
    LET rows == SelectSeq(DataRows(file), MissingImportRow)
    IN  executemany(table, [i \in 1..Len(rows) |-> MissingTuple(rows[i])])

(* ---------------------- viewer: definition endpoint ------------------- *)

\* the character classes of [\w\s'\-]
WordReClasses == {"letter", "digit", "underscore", "space", "apostrophe", "hyphen"}

\* a <word> path parameter: its text, its length and the classes of the
\* characters it is made of
Params ==
    {[text |-> "chien", len |-> 5, classes |-> {"letter"}],
     [text |-> "word", len |-> 4, classes |-> {"letter"}],
     [text |-> "loup", len |-> 4, classes |-> {"letter"}],
     [text |-> "l'eau-de-vie 2", len |-> 14,
      classes |-> {"letter", "apostrophe", "hyphen", "space", "digit"}],
     [text |-> "chien;--", len |-> 8, classes |-> {"letter", "other", "hyphen"}],
     [text |-> "a x 80", len |-> WORD_RE_MAX, classes |-> {"letter"}],
     [text |-> "a x 81", len |-> WORD_RE_MAX + 1, classes |-> {"letter"}]}

ParamTexts == {p.text : p \in Params}

\* bool(word and _WORD_RE.match(word))
is_valid_word_param(p) ==
    /\ p.text # ""
    /\ p.len >= 1
    /\ p.len <= WORD_RE_MAX
    /\ p.classes \subseteq WordReClasses

\* an existence test that accepts every word
word_exists_in_db_Always(table, w) == TRUE

\* SELECT 1 FROM words_good WHERE word = ? LIMIT 1
word_exists_in_db(table, w) == \E i \in 1..Len(table) : table[i].word = w

\* what the two external dictionaries answer: the list of definitions of
\* Larousse (empty also when the call raises), the first non-empty sense of
\* freedictionaryapi ("" when there is none or the call fails)
ApiReplies == [larousse : {<<>>, <<"def L">>}, free : {"", "def F"}]

fetch_definition_from_api(api) ==
    IF Len(api.larousse) > 0 THEN <<api.larousse[1], "larousse">>
    ELSE IF api.free # "" THEN <<api.free, "freedictionaryapi">>
    ELSE <<None, None>>

\* UPDATE words_good SET definition = ?, definition_source = ? WHERE word = ?
UpdateDefinition(table, w, definition, source) ==
    [i \in 1..Len(table) |->
        IF table[i].word = w
        THEN [table[i] EXCEPT !.definition = definition, !.definition_source = source]
        ELSE table[i]]

\* no request has been answered
NoResponse ==
    [param |-> [text |-> "", len |-> 0, classes |-> {}], status |-> 0,
     definition |-> None, cached |-> FALSE, wrote |-> FALSE]

(* ------------------------------ state --------------------------------- *)

VARIABLES
    inputFile,      \* input_words.csv
    trackerFile,    \* scrape_tracker.csv
    goodFile,       \* words_good.csv
    missingFile,    \* words_missing.csv
    web,            \* the page the site serves for each lemma
    now,            \* the clock: datetime.now(), one tick per started run
    pc,             \* position of the process in main(); "idle": no process
    tracker,        \* main's tracker dict
    missing_set,    \* main's missing_set
    words,          \* main's words
    idx,            \* position of the for loop in words
    word,           \* main's word
    scraped,        \* main's scraped
    missing_streak, \* main's missing_streak
    settled,        \* whether a whole run has ended under the present input and site
    dbGood,         \* words.db: table words_good, rows in id order
    dbMissing,      \* words.db: table words_missing, rows in id order
    imports,        \* number of times init_db() has run
    resp,           \* the response of the last get_definition request
    apiCalls        \* number of fetch_definition_from_api calls made, per word

durable == <<inputFile, trackerFile, goodFile, missingFile>>

memory == <<tracker, missing_set, words, idx, word, scraped, missing_streak>>

\* the state of the viewer
viewer == <<dbGood, dbMissing, imports, resp, apiCalls>>

vars == <<inputFile, trackerFile, goodFile, missingFile, web, now, pc,
          tracker, missing_set, words, idx, word, scraped, missing_streak, settled,
          dbGood, dbMissing, imports, resp, apiCalls>>

\* the memory of a process that does not exist
NoProcess ==
    /\ tracker' = <<>>
    /\ missing_set' = {}
    /\ words' = <<>>
    /\ idx' = 0
    /\ word' = ""
    /\ scraped' = NoResult
    /\ missing_streak' = 0

Init ==
    /\ inputFile = NoFile
    /\ trackerFile = <<>>
    /\ goodFile = <<>>
    /\ missingFile = <<>>
    /\ web \in Sites
    /\ now = 0
    /\ pc = "idle"
    /\ tracker = <<>>
    /\ missing_set = {}
    /\ words = <<>>
    /\ idx = 0
    /\ word = ""
    /\ scraped = NoResult
    /\ missing_streak = 0
    /\ settled = "no"
    /\ dbGood = <<>>
    /\ dbMissing = <<>>
    /\ imports = 0
    /\ resp = NoResponse
    /\ apiCalls = [t \in ParamTexts |-> 0]

(* ---------------------------- environment ----------------------------- *)

\* the operator replaces the input list (between runs: a run reads it once;
\* not after the last run, where nothing reads it)
EditInput ==
    /\ pc = "idle"
    /\ now < MaxRuns
    /\ \E f \in InputFiles :
        /\ f # inputFile
        /\ inputFile' = f
    /\ settled' = "no"
    /\ UNCHANGED <<trackerFile, goodFile, missingFile, web, now, pc, memory>>
    /\ UNCHANGED viewer

\* the site changes the page of one lemma: between runs, or in a run before
\* a row is read (a page is read by the fetch of line 153 only)
WebChange ==
    /\ (pc = "idle" /\ now < MaxRuns) \/ (pc = "loop" /\ idx <= Len(words))
    /\ \E w \in Lemmas : \E p \in PagesOf(w) :
        /\ web[w] # p
        /\ web' = [web EXCEPT ![w] = p]
    /\ settled' = IF pc = "idle" THEN "no" ELSE "dirty"
    /\ UNCHANGED <<durable, now, pc, memory>>
    /\ UNCHANGED viewer

(* ------------------------------- main --------------------------------- *)

IsDone(t, w) == \E j \in 1..Len(t) : t[j].word = w /\ t[j].status = "done"

\* a success test that accepts every page that was reachable
Succeeded_AnyPage(s) == s # NoResult

\* line 156
Succeeded(s) == s # NoResult /\ s.gender_or_group \notin {None, ""} /\ s.pos # "other"

\* lines 102-141: the start of main() up to the loop
StartRun ==
    /\ pc = "idle"
    /\ now < MaxRuns
    /\ now' = now + 1
    /\ IF InputFails(inputFile)
       THEN /\ pc' = "idle"
            /\ UNCHANGED memory
       ELSE /\ tracker' = load_tracker(trackerFile)
            /\ missing_set' = LoadMissingSet(missingFile)
            /\ words' = ParseInput(inputFile)
            /\ missing_streak' = 0
            /\ idx' = 1
            /\ pc' = "loop"
            /\ UNCHANGED <<word, scraped>>
    /\ UNCHANGED <<durable, web, settled>>
    /\ UNCHANGED viewer

\* lines 143-147: a row without a word
SkipEmpty ==
    /\ pc = "loop"
    /\ idx <= Len(words)
    /\ words[idx] = ""
    /\ word' = words[idx]
    /\ idx' = idx + 1
    /\ UNCHANGED <<durable, web, now, pc, tracker, missing_set, words, scraped,
                   missing_streak, settled>>
    /\ UNCHANGED viewer

\* a skip rule that skips nothing
SkipRule_Never(t, w) == FALSE

\* a skip rule that skips every word the tracker knows
SkipRule_AnyEntry(t, w) == \E j \in 1..Len(t) : t[j].word = w

\* the skip rule of lines 149-151
SkipRule(t, w) == IsDone(t, w)

\* lines 149-151: a word already scraped
SkipDone ==
    /\ pc = "loop"
    /\ idx <= Len(words)
    /\ words[idx] # ""
    /\ SkipRule(tracker, words[idx])
    /\ word' = words[idx]
    /\ idx' = idx + 1
    /\ UNCHANGED <<durable, web, now, pc, tracker, missing_set, words, scraped,
                   missing_streak, settled>>
    /\ UNCHANGED viewer

\* line 153: one GET and its classification
Fetch ==
    /\ pc = "loop"
    /\ idx <= Len(words)
    /\ words[idx] # ""
    /\ ~SkipRule(tracker, words[idx])
    /\ word' = words[idx]
    /\ scraped' = scrape_word(words[idx], web[words[idx]])
    /\ pc' = "fetched"
    /\ UNCHANGED <<durable, web, now, tracker, missing_set, words, idx,
                   missing_streak, settled>>
    /\ UNCHANGED viewer

DoneEntry(w, s, ts) ==
    [word |-> w, pos |-> s.pos, status |-> "done",
     gender_or_group |-> s.gender_or_group, timestamp |-> ts]

\* a part-of-speech guess that ignores the classifier
MissingPos_Unknown(s) == "unknown"

\* line 171
MissingPos(s) == IF s # NoResult THEN s.pos ELSE "unknown"

MissingEntry(w, s, ts) ==
    [word |-> w, pos |-> MissingPos(s), status |-> "missing",
     gender_or_group |-> "", timestamp |-> ts]

\* a tracker update that is written to the file at once
Record_Persist ==
    /\ pc = "fetched"
    /\ tracker' = SetEntry(tracker,
                           IF Succeeded(scraped) THEN DoneEntry(word, scraped, now)
                           ELSE MissingEntry(word, scraped, now))
    /\ trackerFile' = save_tracker(tracker')
    /\ pc' = "recorded"
    /\ UNCHANGED <<inputFile, goodFile, missingFile, web, now, missing_set, words,
                   idx, word, scraped, missing_streak, settled>>
    /\ UNCHANGED viewer

\* lines 156-165 and 169-178: the tracker entry of the word
Record ==
    /\ pc = "fetched"
    /\ tracker' = SetEntry(tracker,
                           IF Succeeded(scraped) THEN DoneEntry(word, scraped, now)
                           ELSE MissingEntry(word, scraped, now))
    /\ pc' = "recorded"
    /\ UNCHANGED <<durable, web, now, missing_set, words, idx, word, scraped,
                   missing_streak, settled>>
    /\ UNCHANGED viewer

\* lines 166-167 without the streak reset
AppendGood_NoReset ==
    /\ pc = "recorded"
    /\ Succeeded(scraped)
    /\ goodFile' = append_csv(goodFile, GoodHeader, scraped)
    /\ pc' = "save"
    /\ UNCHANGED <<inputFile, trackerFile, missingFile, web, now, tracker,
                   missing_set, words, idx, word, scraped, missing_streak, settled>>
    /\ UNCHANGED viewer

\* lines 166-167 going on to the delay without the save
AppendGood_NoSave ==
    /\ pc = "recorded"
    /\ Succeeded(scraped)
    /\ goodFile' = append_csv(goodFile, GoodHeader, scraped)
    /\ missing_streak' = 0
    /\ pc' = "sleep"
    /\ UNCHANGED <<inputFile, trackerFile, missingFile, web, now, tracker,
                   missing_set, words, idx, word, scraped, settled>>
    /\ UNCHANGED viewer

\* lines 166-167: the Classified row, the streak reset
AppendGood ==
    /\ pc = "recorded"
    /\ Succeeded(scraped)
    /\ goodFile' = append_csv(goodFile, GoodHeader, scraped)
    /\ missing_streak' = 0
    /\ pc' = "save"
    /\ UNCHANGED <<inputFile, trackerFile, missingFile, web, now, tracker,
                   missing_set, words, idx, word, scraped, settled>>
    /\ UNCHANGED viewer

\* lines 179-189: the Unclassified row, the streak, the auto-pause
AppendMissing ==
    /\ pc = "recorded"
    /\ ~Succeeded(scraped)
    /\ IF word \notin missing_set
       THEN /\ missingFile' = append_csv(missingFile, MissingHeader,
                                         [word |-> word, pos |-> MissingPos(scraped)])
            /\ missing_set' = missing_set \cup {word}
       ELSE UNCHANGED <<missingFile, missing_set>>
    /\ missing_streak' = missing_streak + 1
    /\ pc' = IF missing_streak' >= AUTO_PAUSE_LIMIT THEN "end" ELSE "save"
    /\ UNCHANGED <<inputFile, trackerFile, goodFile, web, now, tracker,
                   words, idx, word, scraped, settled>>
    /\ UNCHANGED viewer

\* line 31: open(TRACKER_CSV, 'w') truncates the file
SaveOpen ==
    /\ pc = "save"
    /\ trackerFile' = <<>>
    /\ pc' = "saving"
    /\ UNCHANGED <<inputFile, goodFile, missingFile, web, now, memory, settled>>
    /\ UNCHANGED viewer

\* lines 32-36: the rows reach the file when it is closed
SaveWrite ==
    /\ pc = "saving"
    /\ trackerFile' = save_tracker(tracker)
    /\ pc' = "sleep"
    /\ UNCHANGED <<inputFile, goodFile, missingFile, web, now, memory, settled>>
    /\ UNCHANGED viewer

\* line 195: the delay, then the next row
Sleep ==
    /\ pc = "sleep"
    /\ idx' = idx + 1
    /\ pc' = "loop"
    /\ UNCHANGED <<durable, web, now, tracker, missing_set, words, word, scraped,
                   missing_streak, settled>>
    /\ UNCHANGED viewer

\* line 143: no row is left
Exhausted ==
    /\ pc = "loop"
    /\ idx > Len(words)
    /\ pc' = "end"
    /\ UNCHANGED <<durable, web, now, memory, settled>>
    /\ UNCHANGED viewer

\* lines 197-198: main() returns and the process exits
Finish ==
    /\ pc = "end"
    /\ pc' = "idle"
    /\ NoProcess
    /\ settled' = IF settled = "dirty" THEN "no" ELSE "yes"
    /\ UNCHANGED <<durable, web, now>>
    /\ UNCHANGED viewer

\* the process is terminated from outside, between any two steps
Kill ==
    /\ pc # "idle"
    /\ pc' = "idle"
    /\ NoProcess
    /\ settled' = "no"
    /\ UNCHANGED <<durable, web, now>>
    /\ UNCHANGED viewer

Step ==
    \/ SkipEmpty \/ SkipDone \/ Fetch \/ Record \/ AppendGood \/ AppendMissing
    \/ SaveOpen \/ SaveWrite \/ Sleep \/ Exhausted

NextClean == EditInput \/ WebChange \/ StartRun \/ Step \/ Finish

Next == NextClean \/ Kill

\* runs that may be terminated from outside
Spec == Init /\ [][Next]_vars

\* runs that end by input exhaustion or by auto-pause only
SpecClean == Init /\ [][NextClean]_vars


(* ------------------------------ viewer -------------------------------- *)

\* the rows words_good.csv can hold: what scrape_word gives for a page that
\* classifies, and a row whose attribute was blanked by hand
CsvGoodRows ==
    {s \in {scrape_word(w, p) : w \in Lemmas, p \in Pages} : Succeeded(s)}
    \cup {[word |-> "chien", pos |-> "noun", gender_or_group |-> ""]}

\* the rows words_missing.csv can hold
CsvMissingRows ==
    {[word |-> "chien", pos |-> "unknown"], [word |-> "word", pos |-> "other"]}

\* the files of up to MaxCsvRows rows under a header, and no file
CsvFiles(header, rows) ==
    {<<>>} \cup {<<header>> \o f : f \in UNION {[1..n -> rows] : n \in 0..MaxCsvRows}}

\* the output files of one run over [chien, word] that classified chien
OneGoodFile == <<GoodHeader, scrape_word("chien", PageNoun)>>

OneMissingFile == <<MissingHeader, [word |-> "word", pos |-> "other"]>>

\* the viewer is started with no words.db, on output files of which one is
\* any file of the bounded family
InitViewer ==
    /\ inputFile = NoFile
    /\ trackerFile = <<>>
    /\ \/ /\ goodFile \in CsvFiles(GoodHeader, CsvGoodRows)
          /\ missingFile = OneMissingFile
       \/ /\ goodFile = OneGoodFile
          /\ missingFile \in CsvFiles(MissingHeader, CsvMissingRows)
    /\ web \in {[w \in Lemmas |-> PageNotFound]}
    /\ now = 0
    /\ pc = "idle"
    /\ tracker = <<>>
    /\ missing_set = {}
    /\ words = <<>>
    /\ idx = 0
    /\ word = ""
    /\ scraped = NoResult
    /\ missing_streak = 0
    /\ settled = "no"
    /\ dbGood = <<>>
    /\ dbMissing = <<>>
    /\ imports = 0
    /\ resp = NoResponse
    /\ apiCalls = [t \in ParamTexts |-> 0]

\* the state of the scraper
scraper == <<inputFile, trackerFile, goodFile, missingFile, web, now, pc,
             tracker, missing_set, words, idx, word, scraped, missing_streak, settled>>

\* init_db(), run when the module is loaded (line 265)
InitDb ==
    /\ imports < MaxImports
    /\ dbGood' = ImportGood(dbGood, goodFile)
    /\ dbMissing' = ImportMissing(dbMissing, missingFile)
    /\ imports' = imports + 1
    /\ UNCHANGED <<scraper, resp, apiCalls>>

Response(p, status, definition, cached, wrote) ==
    [param |-> p, status |-> status, definition |-> definition,
     cached |-> cached, wrote |-> wrote]

\* one request GET /api/definition/<word>, from validation to response
GetDefinition(p, api) ==
    /\ imports >= 1
    /\ IF ~is_valid_word_param(p)
       THEN /\ resp' = Response(p, 400, None, FALSE, FALSE)
            /\ UNCHANGED <<dbGood, apiCalls>>
       ELSE IF ~word_exists_in_db(dbGood, p.text)
       THEN /\ resp' = Response(p, 404, None, FALSE, FALSE)
            /\ UNCHANGED <<dbGood, apiCalls>>
       ELSE IF \E i \in 1..Len(dbGood) :
                    dbGood[i].word = p.text /\ Truthy(dbGood[i].definition)
       THEN /\ \E i \in 1..Len(dbGood) :
                /\ dbGood[i].word = p.text
                /\ resp' = Response(p, 200, dbGood[i].definition, TRUE, FALSE)
            /\ UNCHANGED <<dbGood, apiCalls>>
       ELSE LET r == fetch_definition_from_api(api)
            IN  /\ apiCalls[p.text] < MaxCalls
                /\ apiCalls' = [apiCalls EXCEPT ![p.text] = @ + 1]
                /\ dbGood' = UpdateDefinition(dbGood, p.text, r[1], r[2])
                /\ resp' = Response(p, IF Truthy(r[1]) THEN 200 ELSE 404, r[1], FALSE, TRUE)
    /\ UNCHANGED <<scraper, dbMissing, imports>>

Request == \E p \in Params : \E api \in ApiReplies : GetDefinition(p, api)

NextViewer == InitDb \/ Request

\* the viewer over output files that do not change
SpecViewer == InitViewer /\ [][NextViewer]_vars

(* ------------------------------ claims -------------------------------- *)

\* number of data rows of a file for word w
Count(file, w) == Cardinality({j \in 1..Len(DataRows(file)) : DataRows(file)[j].word = w})

\* the entries a dict holds for word w
EntriesOf(t, w) == {t[j] : j \in {i \in 1..Len(t) : t[i].word = w}}

\* the tracker as the program sees it: the dict of the running process, or
\* what the next process will load
Eff == IF pc = "idle" THEN load_tracker(trackerFile) ELSE tracker

\* C1: under runs that end by exhaustion or auto-pause, every word has at
\* most one row in words_good.csv.
C1_AtMostOnceClassified == \A w \in Lemmas : Count(goodFile, w) <= 1

\* a word classified by the first run has been passed over by the second
C1_Witness ==
    /\ now = 2
    /\ pc = "loop"
    /\ \E j \in 1..(idx - 1) :
        /\ Count(goodFile, words[j]) = 1
        /\ \E e \in EntriesOf(tracker, words[j]) : e.status = "done" /\ e.timestamp = 1

\* C2: however runs end (external termination included), every word has at
\* most one row in words_missing.csv, also when it fails on every run.
C2_AtMostOnceMissing == \A w \in Lemmas : Count(missingFile, w) <= 1

\* a word that failed in the first run has failed again in the second
C2_Witness ==
    /\ now = 2
    /\ pc = "save"
    /\ ~Succeeded(scraped)
    /\ Count(missingFile, word) = 1
    /\ \E e \in EntriesOf(tracker, word) : e.status = "missing" /\ e.timestamp = 2
    /\ \E e \in EntriesOf(load_tracker(trackerFile), word) :
        e.status = "missing" /\ e.timestamp = 1

\* C3: once a whole run has ended under the present input list and site, and
\* neither has changed since, no step of a later run changes words_good.csv
\* or words_missing.csv.
C3_IdempotentResume ==
    [][settled = "yes" => goodFile' = goodFile /\ missingFile' = missingFile]_vars

\* a second run over the same input and site has ended, having retried a
\* missing word and met a classified one
C3_Witness ==
    /\ settled = "yes"
    /\ now = 2
    /\ pc = "end"
    /\ goodFile # <<>>
    /\ missingFile # <<>>
    /\ \E j \in 1..Len(tracker) : tracker[j].status = "missing" /\ tracker[j].timestamp = 2
    /\ \E j \in 1..Len(words) : IsDone(tracker, words[j])

\* C4: for a word whose tracker entry has status done, no step after the
\* occurrence that classified it (whose Classified row follows the entry)
\* fetches it, changes its entry (status, attribute, timestamp), adds a row
\* for it to either output, or changes the streak when the loop stands at it.
C4_SkipInvariant ==
    [][\A w \in Lemmas : IsDone(Eff, w) /\ ~(pc = "recorded" /\ word = w) =>
        /\ ~(pc = "loop" /\ pc' = "fetched" /\ word' = w)
        /\ EntriesOf(Eff', w) = EntriesOf(Eff, w)
        /\ Count(goodFile', w) = Count(goodFile, w)
        /\ Count(missingFile', w) = Count(missingFile, w)
        /\ (pc = "loop" /\ idx <= Len(words) /\ words[idx] = w
                => missing_streak' = missing_streak)]_vars

\* a word that never failed was classified in this run and its next
\* occurrence in the same run has been passed over
C4_Witness ==
    /\ now = 1
    /\ pc = "loop"
    /\ idx >= 3
    /\ words[idx - 1] = words[idx - 2]
    /\ IsDone(tracker, words[idx - 1])
    /\ Count(missingFile, words[idx - 1]) = 0

\* the positions of this run's rows that were attempted and failed
Failed == {j \in 1..idx : j <= Len(words) /\ words[j] # "" /\ ~IsDone(tracker, words[j])}

\* the words of the present failure streak
StreakWords ==
    {words[j] : j \in {i \in Failed : Cardinality({k \in Failed : k >= i}) <= missing_streak}}

\* C5: when a run has halted by auto-pause, scrape_tracker.csv holds a
\* status=missing entry for every word of the streak, the last one included,
\* and words_missing.csv holds at most one row for each of them.
C5_AutoPausePersists ==
    (pc = "end" /\ missing_streak >= AUTO_PAUSE_LIMIT) =>
        \A w \in StreakWords :
            /\ \E e \in EntriesOf(load_tracker(trackerFile), w) : e.status = "missing"
            /\ Count(missingFile, w) <= 1

\* C6: the streak is 0 at the start of a run, goes up by one on every FAILED
\* outcome and back to 0 on every SUCCEEDED one, and changes at no other
\* step; the run halts by auto-pause only on a FAILED outcome that brings the
\* streak to the limit, with at least that many failed rows behind it; the
\* streak never exceeds the limit and nothing is fetched once it reached it.
C6_StreakInv ==
    /\ missing_streak \in 0..AUTO_PAUSE_LIMIT
    /\ pc \in {"loop", "fetched", "recorded", "save", "saving", "sleep"}
        => missing_streak < AUTO_PAUSE_LIMIT

C6_StreakStep ==
    /\ pc = "idle" /\ pc' = "loop" => missing_streak' = 0
    /\ pc = "recorded" /\ pc' # "idle" =>
        missing_streak' = IF Succeeded(scraped) THEN 0 ELSE missing_streak + 1
    /\ pc \notin {"idle", "recorded"} /\ pc' # "idle" => missing_streak' = missing_streak
    /\ pc = "recorded" /\ pc' = "end" =>
        /\ ~Succeeded(scraped)
        /\ missing_streak' >= AUTO_PAUSE_LIMIT
        /\ Cardinality(Failed') >= AUTO_PAUSE_LIMIT

C6_Streak == []C6_StreakInv /\ [][C6_StreakStep]_vars

\* one failure short of the limit, then a success: the streak is 0 and the
\* run goes on
C6_Witness ==
    /\ pc = "loop"
    /\ idx = AUTO_PAUSE_LIMIT + 1
    /\ missing_streak = 0
    /\ IsDone(tracker, words[AUTO_PAUSE_LIMIT])
    /\ \A j \in 1..(AUTO_PAUSE_LIMIT - 1) : words[j] # "" /\ ~IsDone(tracker, words[j])

\* C7: at every point of a run, scrape_tracker.csv holds the latest entry of
\* every word other than the one in flight.
C7_CrashLosesOnlyInFlight ==
    pc # "idle" =>
        \A j \in 1..Len(tracker) :
            tracker[j].word # word =>
                tracker[j] \in EntriesOf(load_tracker(trackerFile), tracker[j].word)

\* C8: also when runs are terminated from outside and main() is run again,
\* no word has more than one row in words_good.csv or in words_missing.csv.
C8_KillSafeForResumption ==
    \A w \in Lemmas : Count(goodFile, w) <= 1 /\ Count(missingFile, w) <= 1

\* C9 (as stated): no word has a row in both words_good.csv and
\* words_missing.csv.
C9_Disjoint == \A w \in Lemmas : ~(Count(goodFile, w) > 0 /\ Count(missingFile, w) > 0)

\* C9 (amended): under runs that end by exhaustion or auto-pause, no row is
\* added to words_missing.csv for a word that has a row in words_good.csv.
C9_NoMissingAfterClassified ==
    [][\A w \in Lemmas : Count(goodFile, w) > 0
            => Count(missingFile', w) = Count(missingFile, w)]_vars

\* a word that failed first and was classified later has a row in both
\* outputs, and a second run has gone over it
C9_Witness ==
    /\ now = 2
    /\ pc = "end"
    /\ \E j \in 1..Len(words) :
        Count(goodFile, words[j]) = 1 /\ Count(missingFile, words[j]) = 1

Unique(t) == \A i, j \in 1..Len(t) : t[i].word = t[j].word => i = j

EntryOK(e) ==
    /\ e.status \in {"done", "missing"}
    /\ e.status = "done" =>
        e.gender_or_group \notin {"", None} /\ e.pos \notin {"other", "unknown"}
    /\ e.status = "missing" => e.gender_or_group = ""

TrackerOK(t) == Unique(t) /\ \A j \in 1..Len(t) : EntryOK(t[j])

\* C10: the tracker, in memory and on disk, holds at most one entry per
\* word; a done entry has a non-empty attribute and a part of speech other
\* than other/unknown; a missing entry has an empty attribute.
C10_TrackerEntries == TrackerOK(tracker) /\ TrackerOK(DataRows(trackerFile))

\* the tracker holds a done entry and a missing entry, both saved, and one
\* of them was overwritten in this run
C10_Witness ==
    /\ pc = "sleep"
    /\ Len(tracker) = 2
    /\ DataRows(trackerFile) = tracker
    /\ \E i, j \in 1..2 : tracker[i].status = "done" /\ tracker[j].status = "missing"
    /\ \E i, j \in 1..2 : tracker[i].timestamp = 1 /\ tracker[j].timestamp = 2

\* C11: a run started on a missing input list, or on one of fewer than two
\* lines without a header, ends at once: the tracker, the Classified output
\* and the Unclassified output are as before, nothing was loaded, and no
\* process is ever inside the loop (where the fetch is) under such an input.
C11_Step ==
    (pc = "idle" /\ now' # now /\ inputFile.kind \in {"absent", "short"}) =>
        /\ pc' = "idle"
        /\ <<trackerFile, goodFile, missingFile>>' = <<trackerFile, goodFile, missingFile>>
        /\ memory' = memory

C11_InputFailure ==
    [](pc # "idle" => inputFile.kind = "list") /\ [][C11_Step]_vars

\* main() was started on a failing input list while the stores held the
\* results of an earlier run
C11_Witness ==
    /\ now = 2
    /\ pc = "idle"
    /\ inputFile.kind \in {"absent", "short"}
    /\ trackerFile # <<>>
    /\ goodFile # <<>>
    /\ missingFile # <<>>

\* the positions of file whose row is for word w
RowsOf(file, w) == {j \in 1..Len(file) : file[j].word = w}

C14_OneFetchPerWord ==
    [][(pc = "loop" /\ pc' = "fetched") =>
        ~\E e \in EntriesOf(tracker, word') :
            e.status = "missing" /\ e.timestamp = now]_vars

C14_Step ==
    (pc # "idle" /\ pc' # "idle") =>
        \* a fetch is for the current row, whose word is not done
        /\ (pc' = "fetched" /\ pc # "fetched") =>
            /\ pc = "loop"
            /\ idx' = idx
            /\ word' = words[idx]
            /\ ~IsDone(tracker, word')
        \* after its fetch a row is left behind: no retry of a row
        /\ idx' >= idx
        /\ (pc = "fetched" \/ pc = "recorded" \/ pc = "save" \/ pc = "saving") =>
            pc' # "loop" /\ pc' # "fetched"
        /\ (pc = "sleep") => (pc' = "loop" /\ idx' = idx + 1)
        \* a row is passed over without a fetch only when it is empty or done
        /\ (pc = "loop" /\ pc' = "loop" /\ idx' # idx) =>
            (words[idx] = "" \/ IsDone(tracker, words[idx]))

\* C14 (amended): within a run every input row causes at most one fetch and
\* rows are only left behind, never returned to; a row is passed over
\* without a fetch only when its word is empty or done, so a word that is
\* missing, from this run or from an earlier one, is fetched at every row
\* that lists it.
C14_OneFetchPerRow == [][C14_Step]_vars

\* the second run fetches a word the first run left missing
C14_Witness ==
    /\ now = 2
    /\ pc = "fetched"
    /\ \E e \in EntriesOf(tracker, word) : e.status = "missing" /\ e.timestamp = 1

C15_Step ==
    (pc # "idle" /\ pc' # "idle") =>
        /\ (pc' = "fetched") => pc = "loop"
        /\ (pc = "fetched") =>
            /\ pc' = "recorded"
            /\ \E e \in EntriesOf(tracker', word) : e.timestamp = now
        /\ (pc = "recorded") =>
            /\ pc' \in {"save", "end"}
            /\ goodFile' # goodFile \/ word \in missing_set'
            /\ pc' = "end" => ~Succeeded(scraped)
        /\ (pc = "save") => pc' = "saving"
        /\ (pc = "saving") => (pc' = "sleep" /\ trackerFile' = save_tracker(tracker))
        /\ (pc = "sleep") => (pc' = "loop" /\ idx' = idx + 1)
        /\ (pc' = "loop" /\ pc # "loop") => pc = "sleep"
        /\ (pc = "loop") =>
            /\ pc' \in {"loop", "fetched", "end"}
            /\ (pc' = "loop" /\ idx' # idx) =>
                (tracker' = tracker /\ durable' = durable)
        /\ (pc = "end") => FALSE

\* C15: inside a run the steps of a word follow one order: fetch, tracker
\* update, output append, tracker persist, delay; the next fetch starts from
\* the loop head, which is re-entered only through the delay, after a success
\* as after a failure; whenever the loop head is reached the tracker file
\* holds the whole in-memory tracker; a skipped row goes from loop head to
\* loop head with no persist and no delay.
C15_PacingOrder ==
    [](pc = "loop" => load_tracker(trackerFile) = tracker) /\ [][C15_Step]_vars

\* a fetch has begun after an earlier row of the same run was persisted
C15_Witness ==
    /\ pc = "fetched"
    /\ idx >= 2
    /\ \E j \in 1..(idx - 1) :
        \E e \in EntriesOf(DataRows(trackerFile), words[j]) : e.timestamp = now

C16_Step ==
    (pc = "fetched" \/ (pc = "recorded" /\ pc' = "idle")) =>
        <<trackerFile, goodFile, missingFile>>' = <<trackerFile, goodFile, missingFile>>

IsPrefix(a, b) == Len(a) <= Len(b) /\ SubSeq(b, 1, Len(a)) = a

TrackedWords(file) == {DataRows(file)[j].word : j \in 1..Len(DataRows(file))}

\* the tracker file as a persist leaves it: while the file is open for
\* writing, the rows being written
PersistView == IF pc = "saving" THEN save_tracker(tracker) ELSE trackerFile

C17_Step ==
    /\ IsPrefix(goodFile, goodFile')
    /\ IsPrefix(missingFile, missingFile')
    /\ TrackedWords(PersistView) \subseteq TrackedWords(PersistView')

\* C17: under runs that end by exhaustion or auto-pause, every step leaves
\* the earlier Classified rows and the earlier Unclassified rows as a prefix
\* of the later ones, and every word with an entry in the persisted tracker
\* keeps one, words absent from the current input list included.
C17_AppendOnly == [][C17_Step]_vars

\* a word is in both outputs, and the tracker just persisted holds a word the
\* current input list does not have
C17_Witness ==
    /\ pc = "sleep"
    /\ \E w \in Lemmas : Count(goodFile, w) >= 1 /\ Count(missingFile, w) >= 1
    /\ \E w \in TrackedWords(trackerFile) : \A j \in 1..Len(words) : words[j] # w

\* C20 as stated: in every reachable state every word the tracker file marks
\* done has a Classified row and every word it marks missing has an
\* Unclassified row.
C20_TrackerOutputConsistent ==
    \A j \in 1..Len(DataRows(trackerFile)) :
        LET e == DataRows(trackerFile)[j]
        IN  /\ e.status = "done" => RowsOf(DataRows(goodFile), e.word) # {}
            /\ e.status = "missing" => RowsOf(DataRows(missingFile), e.word) # {}

\* the (word, pos, gender_or_group) part of table words_good
Core(table) ==
    [i \in 1..Len(table) |->
        [word |-> table[i].word, pos |-> table[i].pos,
         gender_or_group |-> table[i].gender_or_group]]

C13_Step ==
    (imports' = imports) =>
        \* no row inserted, deleted or changed in word, pos, gender_or_group
        /\ Core(dbGood') = Core(dbGood)
        /\ dbMissing' = dbMissing
        \* a lookup or a write happens only for a valid word of words_good
        /\ (apiCalls' # apiCalls \/ dbGood' # dbGood \/ resp'.wrote) =>
            /\ is_valid_word_param(resp'.param)
            /\ \E i \in 1..Len(dbGood) : dbGood[i].word = resp'.param.text
            /\ \A t \in ParamTexts : t # resp'.param.text => apiCalls'[t] = apiCalls[t]
        /\ (resp' # resp /\ ~is_valid_word_param(resp'.param)) =>
            (resp'.status = 400 /\ ~resp'.wrote /\ apiCalls' = apiCalls /\ dbGood' = dbGood)
        /\ (resp' # resp /\ is_valid_word_param(resp'.param)
                /\ ~\E i \in 1..Len(dbGood) : dbGood[i].word = resp'.param.text) =>
            (resp'.status = 404 /\ ~resp'.wrote /\ apiCalls' = apiCalls /\ dbGood' = dbGood)

\* C13: a get_definition request never inserts or deletes a row of
\* words_good or words_missing and never changes a word, pos or
\* gender_or_group; it calls the external dictionaries and writes to the
\* database only for a word that passes validation and is in words_good; an
\* invalid word is answered 400 and a word that is not in words_good 404,
\* both without call and without write.
C13_WriteScope == [][C13_Step]_vars

\* requests have been answered 400 and 404 and one has stored a definition,
\* with both tables populated
C13_Witness ==
    /\ resp.status = 404
    /\ is_valid_word_param(resp.param)
    /\ ~resp.wrote
    /\ dbMissing # <<>>
    /\ \E i \in 1..Len(dbGood) : Truthy(dbGood[i].definition)
    /\ \E i \in 1..Len(dbGood) : ~Truthy(dbGood[i].definition)

\* C18 as stated: once a request for a word of words_good has made the
\* external lookup and stored its result, no later request for that word
\* makes the lookup again: at most one lookup per word.
C18_AtMostOneLookup == \A t \in ParamTexts : apiCalls[t] <= 1

\* the valid rows of a CSV file, in file order
ValidGood(file) == SelectSeq(DataRows(file), GoodImportRow)

ValidMissing(file) == SelectSeq(DataRows(file), MissingImportRow)

\* table holds one row per word of rows, made of the first row of that word
FirstWins(table, rows) ==
    /\ \A i, j \in 1..Len(table) : table[i].word = table[j].word => i = j
    /\ {table[i].word : i \in 1..Len(table)} = {rows[j].word : j \in 1..Len(rows)}
    /\ \A i \in 1..Len(table) :
        \E j \in 1..Len(rows) :
            /\ rows[j] = table[i]
            /\ \A k \in 1..(j - 1) : rows[k].word # table[i].word

C19_Step ==
    (imports >= 1 /\ imports' # imports) => (dbGood' = dbGood /\ dbMissing' = dbMissing)

\* C19: after init_db has run, once or several times, each table holds every
\* word of the valid CSV rows exactly once, with the fields of the first row
\* that lists it; a second or later run of init_db changes neither table,
\* the stored definition and definition_source included.
C19_IdempotentImport ==
    /\ [](imports >= 1 =>
            /\ FirstWins(Core(dbGood), ValidGood(goodFile))
            /\ FirstWins(dbMissing, ValidMissing(missingFile)))
    /\ [][C19_Step]_vars

\* init_db has run again over a CSV that lists one word twice with
\* different fields, after a definition was stored
C19_Witness ==
    /\ imports = 2
    /\ \E i \in 1..Len(dbGood) : Truthy(dbGood[i].definition)
    /\ \E j, k \in 1..Len(DataRows(goodFile)) :
        /\ j < k
        /\ DataRows(goodFile)[j].word = DataRows(goodFile)[k].word
        /\ DataRows(goodFile)[j] # DataRows(goodFile)[k]

====
